---------------------------- MODULE Spec2Model ----------------------------
(***************************************************************************)
(* A model of the three telemetry bridges of this repository:              *)
(*   newlast.py  line-atomic frames, JSON POST, checked initialisation     *)
(*   newsim3.py  line-atomic frames, JSON POST, step-list initialisation   *)
(*   simnew.py   accumulating frames, query-string GET                     *)
(* Each program owns two serial links (modem, sensor).  The modem and the  *)
(* sensor are the environment: what they emit is chosen with \E.  Text is  *)
(* modelled as sequences of Unicode code points, so that strip, split,     *)
(* case folding, float parsing and UTF-8 encoding are computed.            *)
(***************************************************************************)
EXTENDS Integers, Sequences, FiniteSets, TLC

(***************************************************************************)
(* Bounds of the model.                                                    *)
(***************************************************************************)
MaxSegs == 2        \* comma-separated segments of a line-atomic sensor line
MaxPolls == 2       \* reads wait_for performs before its deadline elapses

(***************************************************************************)
(* Text: code points.                                                      *)
(***************************************************************************)
SPACE == 32
COMMA == 44
EQUALS == 61
DOT == 46
AMP == 38
PLUS == 43
MINUS == 45
ZERO == 48

IsSpace(c) == c \in {9, 10, 11, 12, 13, SPACE}
IsDigit(c) == c \in 48..57

RECURSIVE LStrip(_)
LStrip(s) ==
    IF s # <<>> /\ IsSpace(Head(s)) THEN LStrip(Tail(s)) ELSE s

RECURSIVE RStrip(_)
RStrip(s) ==
    IF s # <<>> /\ IsSpace(s[Len(s)]) THEN RStrip(SubSeq(s, 1, Len(s) - 1)) ELSE s

\* str.strip()
Strip(s) == RStrip(LStrip(s))

\* str.lower() / str.upper() on the letters A-Z, a-z and the Latin-1 letters
LowerChar(c) ==
    IF c \in 65..90 \/ (c \in 192..222 /\ c # 215) THEN c + 32 ELSE c

UpperChar(c) ==
    IF c \in 97..122 \/ (c \in 224..254 /\ c # 247) THEN c - 32 ELSE c

Lower(s) == [i \in 1..Len(s) |-> LowerChar(s[i])]
Upper(s) == [i \in 1..Len(s) |-> UpperChar(s[i])]

\* c in s
Contains(s, c) == \E i \in 1..Len(s) : s[i] = c

\* the index of the first c in s (0 when there is none)
IndexOf(s, c) ==
    IF Contains(s, c) THEN CHOOSE i \in 1..Len(s) : s[i] = c /\ \A j \in 1..(i - 1) : s[j] # c
    ELSE 0

\* the index of the first occurrence of pat in s (0 when there is none)
FindSub(s, pat) ==
    LET at == {i \in 1..(Len(s) - Len(pat) + 1) : SubSeq(s, i, i + Len(pat) - 1) = pat}
    IN  IF at = {} THEN 0 ELSE CHOOSE i \in at : \A j \in at : i <= j

\* pat in s, for strings
Occurs(pat, s) == pat = <<>> \/ FindSub(s, pat) > 0

\* bytes.decode(errors='ignore') of one chunk of bytes, for bytes below 0xE0
\* and above 0xF4: an ASCII byte is a character, a lead byte 0xC2..0xDF with
\* the continuation byte after it is a character, every other byte (a lead
\* byte with no continuation byte after it in this chunk, a continuation byte
\* with no lead byte, a byte that is never valid) is dropped
RECURSIVE decode(_)
decode(b) ==
    IF b = <<>> THEN <<>>
    ELSE IF b[1] < 128 THEN <<b[1]>> \o decode(Tail(b))
    ELSE IF b[1] >= 194 /\ b[1] <= 223 /\ Len(b) >= 2 /\ b[2] >= 128 /\ b[2] <= 191
         THEN <<(b[1] - 192) * 64 + (b[2] - 128)>> \o decode(SubSeq(b, 3, Len(b)))
    ELSE decode(Tail(b))

\* s.split(sep): always at least one part
RECURSIVE Split(_, _)
Split(s, sep) ==
    LET i == IndexOf(s, sep)
    IN  IF i = 0 THEN <<s>>
        ELSE <<SubSeq(s, 1, i - 1)>> \o Split(SubSeq(s, i + 1, Len(s)), sep)

\* sep.join(parts)
RECURSIVE Join(_, _)
Join(parts, sep) ==
    IF parts = <<>> THEN <<>>
    ELSE IF Len(parts) = 1 THEN parts[1]
    ELSE parts[1] \o <<sep>> \o Join(Tail(parts), sep)

\* the number of bytes of one code point in UTF-8
Utf8CharLen(c) ==
    IF c < 128 THEN 1 ELSE IF c < 2048 THEN 2 ELSE IF c < 65536 THEN 3 ELSE 4

\* len(s.encode('utf-8')): the sum of the characters' byte counts
Utf8Len(s) ==
    LET n(k) == Cardinality({i \in 1..Len(s) : Utf8CharLen(s[i]) = k})
    IN  n(1) + 2 * n(2) + 3 * n(3) + 4 * n(4)

\* str(n) for a natural number
RECURSIVE DecStr(_)
DecStr(n) ==
    IF n < 10 THEN <<ZERO + n>> ELSE DecStr(n \div 10) \o <<ZERO + (n % 10)>>

RECURSIVE Pow10(_)
Pow10(k) == IF k = 0 THEN 1 ELSE 10 * Pow10(k - 1)

(***************************************************************************)
(* float(): decimal numbers are kept exactly as mant / 10^scale, with the  *)
(* trailing zeros of the fraction removed.  The grammar covered is         *)
(*   [sign] digits [. digits] | [sign] . digits | [sign] nan|inf|infinity  *)
(* surrounded by white space; everything else raises ValueError, as it     *)
(* does in Python for the texts the sensor lines of this model hold.       *)
(***************************************************************************)
ValueError == [kind |-> "ValueError"]

S_nan == <<110, 97, 110>>
S_inf == <<105, 110, 102>>
S_infinity == <<105, 110, 102, 105, 110, 105, 116, 121>>

AllDigits(s) == \A i \in 1..Len(s) : IsDigit(s[i])

RECURSIVE DigitsVal(_)
DigitsVal(s) ==
    IF s = <<>> THEN 0 ELSE 10 * DigitsVal(SubSeq(s, 1, Len(s) - 1)) + (s[Len(s)] - ZERO)

RECURSIVE Normal(_, _, _)
Normal(neg, mant, scale) ==
    IF scale > 0 /\ mant % 10 = 0 THEN Normal(neg, mant \div 10, scale - 1)
    ELSE [kind |-> "finite", neg |-> neg, mant |-> mant, scale |-> scale]

ParseUnsigned(neg, s) ==
    LET parts == Split(s, DOT)
    IN  IF Lower(s) = S_nan THEN [kind |-> "nan"]
        ELSE IF Lower(s) \in {S_inf, S_infinity} THEN [kind |-> "inf", neg |-> neg]
        ELSE IF Len(parts) = 1 /\ s # <<>> /\ AllDigits(s)
             THEN Normal(neg, DigitsVal(s), 0)
        ELSE IF Len(parts) = 2 /\ parts[1] \o parts[2] # <<>>
                /\ AllDigits(parts[1]) /\ AllDigits(parts[2])
             THEN Normal(neg, DigitsVal(parts[1] \o parts[2]), Len(parts[2]))
        ELSE ValueError

float(raw) ==
    LET s == Strip(raw)
    IN  IF s = <<>> THEN ValueError
        ELSE IF Head(s) = MINUS THEN ParseUnsigned(TRUE, Tail(s))
        ELSE IF Head(s) = PLUS THEN ParseUnsigned(FALSE, Tail(s))
        ELSE ParseUnsigned(FALSE, s)

IsFinite(f) == f.kind = "finite"

\* the digits of n, left-padded with zeros to width w
RECURSIVE PadDigits(_, _)
PadDigits(n, w) ==
    IF w = 0 THEN <<>> ELSE PadDigits(n \div 10, w - 1) \o <<ZERO + (n % 10)>>

S_NaN == <<78, 97, 78>>
S_Infinity == <<73, 110, 102, 105, 110, 105, 116, 121>>

\* json.dumps of a float: float.__repr__, and NaN / Infinity / -Infinity
FloatRepr(f) ==
    IF f.kind = "nan" THEN S_NaN
    ELSE IF f.kind = "inf" THEN (IF f.neg THEN <<MINUS>> ELSE <<>>) \o S_Infinity
    ELSE (IF f.neg THEN <<MINUS>> ELSE <<>>)
         \o DecStr(f.mant \div Pow10(f.scale))
         \o <<DOT>>
         \o (IF f.scale = 0 THEN <<ZERO>> ELSE PadDigits(f.mant % Pow10(f.scale), f.scale))

(***************************************************************************)
(* Program constants.                                                      *)
(***************************************************************************)
SOCKET_ID == 0
\* '/endpoint.php?' (simnew.py) and '/api/data' (newlast.py, newsim3.py)
ENDPOINT_GET == <<47, 101, 110, 100, 112, 111, 105, 110, 116, 46, 112, 104, 112, 63>>
ENDPOINT_POST == <<47, 97, 112, 105, 47, 100, 97, 116, 97>>
\* 'merlet.alwaysdata.net'
HOST == <<109, 101, 114, 108, 101, 116, 46, 97, 108, 119, 97, 121, 115, 100, 97, 116, 97, 46, 110, 101, 116>>

K_SPEED == <<83, 80, 69, 69, 68>>
K_TEMP == <<84, 69, 77, 80>>
K_GEAR == <<71, 69, 65, 82>>
K_FUEL == <<70, 85, 69, 76>>
K_RPM == <<82, 80, 77>>
EXPECTED_KEYS == {K_SPEED, K_TEMP, K_GEAR, K_FUEL, K_RPM}

S_GET == <<71, 69, 84, 32>>                                 \* "GET "
S_POST == <<80, 79, 83, 84, 32>>                            \* "POST "
S_HTTP11 == <<32, 72, 84, 84, 80, 47, 49, 46, 49, 13, 10>>  \* " HTTP/1.1\r\n"
S_HostHdr == <<72, 111, 115, 116, 58, 32>>                  \* "Host: "
CRLF == <<13, 10>>
\* "Connection: keep-alive\r\n"
S_ConnHdr == <<67, 111, 110, 110, 101, 99, 116, 105, 111, 110, 58, 32, 107, 101, 101, 112, 45, 97, 108, 105, 118, 101, 13, 10>>
\* "Content-Type: application/json\r\n"
S_CTypeHdr == <<67, 111, 110, 116, 101, 110, 116, 45, 84, 121, 112, 101, 58, 32, 97, 112, 112, 108, 105, 99, 97, 116, 105, 111, 110, 47, 106, 115, 111, 110, 13, 10>>
\* "Content-Length: "
S_CLenHdr == <<67, 111, 110, 116, 101, 110, 116, 45, 76, 101, 110, 103, 116, 104, 58, 32>>
S_temp == <<116, 101, 109, 112>>
S_temperature == <<116, 101, 109, 112, 101, 114, 97, 116, 117, 114, 101>>
\* '{"sensor_type": "'  and  '", "value": '
S_JsonKeyOpen == <<123, 34, 115, 101, 110, 115, 111, 114, 95, 116, 121, 112, 101, 34, 58, 32, 34>>
S_JsonValOpen == <<34, 44, 32, 34, 118, 97, 108, 117, 101, 34, 58, 32>>

(***************************************************************************)
(* TelemetryEncoder: the GET request of simnew.py.                         *)
(***************************************************************************)
\* the keys of a dict, one after the other (the payload's length does not
\* depend on the order)
RECURSIVE KeySeq(_)
KeySeq(keys) ==
    IF keys = {} THEN <<>>
    ELSE LET k == CHOOSE x \in keys : TRUE IN <<k>> \o KeySeq(keys \ {k})

\* '&'.join(f"{k}={v}" for k, v in params.items())
QueryString(params) ==
    LET ks == KeySeq(DOMAIN params)
    IN  Join([i \in 1..Len(ks) |-> ks[i] \o <<EQUALS>> \o params[ks[i]]], AMP)

\* the payload of send_data
GetPayload(params) ==
    S_GET \o ENDPOINT_GET \o QueryString(params) \o S_HTTP11
    \o S_HostHdr \o HOST \o CRLF
    \o S_ConnHdr \o CRLF

\* the length send_data announces: len(payload), a count of characters
GetAnnouncedLength(payload) == Len(payload)

(***************************************************************************)
(* TelemetryEncoder: the JSON POST request of newlast.py and newsim3.py.   *)
(***************************************************************************)
HexDigit(n) == IF n < 10 THEN ZERO + n ELSE 97 + (n - 10)

\* \uXXXX
UEscape(c) ==
    <<92, 117, HexDigit((c \div 4096) % 16), HexDigit((c \div 256) % 16),
      HexDigit((c \div 16) % 16), HexDigit(c % 16)>>

\* a mutant of JsonChar: characters outside ASCII are written as they are
\* (ensure_ascii=False)
JsonChar_not_escaped(c) ==
    IF c = 34 THEN <<92, 34>>
    ELSE IF c = 92 THEN <<92, 92>>
    ELSE <<c>>

\* json.dumps of one character of a string (ensure_ascii=True)
JsonChar(c) ==
    IF c = 34 THEN <<92, 34>>
    ELSE IF c = 92 THEN <<92, 92>>
    ELSE IF c = 10 THEN <<92, 110>>
    ELSE IF c = 13 THEN <<92, 114>>
    ELSE IF c = 9 THEN <<92, 116>>
    ELSE IF c = 12 THEN <<92, 102>>
    ELSE IF c = 8 THEN <<92, 98>>
    ELSE IF c < 32 \/ (c > 126 /\ c < 65536) THEN UEscape(c)
    ELSE IF c >= 65536
         THEN UEscape(55296 + ((c - 65536) \div 1024)) \o UEscape(56320 + ((c - 65536) % 1024))
    ELSE <<c>>

RECURSIVE JsonStr(_)
JsonStr(s) == IF s = <<>> THEN <<>> ELSE JsonChar(Head(s)) \o JsonStr(Tail(s))

JsonReading(r) ==
    S_JsonKeyOpen \o JsonStr(r.sensor_type) \o S_JsonValOpen \o FloatRepr(r.value) \o <<125>>

\* json.dumps(json_payload_list)
\* ", ".join(parts), the item separator of json.dumps
RECURSIVE JoinCommaSpace(_)
JoinCommaSpace(parts) ==
    IF parts = <<>> THEN <<>>
    ELSE IF Len(parts) = 1 THEN parts[1]
    ELSE parts[1] \o <<COMMA, SPACE>> \o JoinCommaSpace(Tail(parts))

\* json.dumps(json_payload_list)
JsonDumps(list) ==
    <<91>> \o JoinCommaSpace([i \in 1..Len(list) |-> JsonReading(list[i])]) \o <<93>>

\* the sensor_type of a key: strip, lower, alias temp -> temperature
SensorType(key) ==
    LET t == Lower(Strip(key)) IN IF t = S_temp THEN S_temperature ELSE t

\* step 1 of send_json_data: the readings of a dict (a sequence of <<k, v>>);
\* a value float() rejects is skipped
RECURSIVE Readings(_)
Readings(items) ==
    IF items = <<>> THEN <<>>
    ELSE LET f == float(items[1][2])
         IN  (IF f = ValueError THEN <<>>
              ELSE <<[sensor_type |-> SensorType(items[1][1]), value |-> f]>>)
             \o Readings(Tail(items))

\* the Content-Length send_json_data writes: len(json_string)
ContentLength(json_string) == Len(json_string)

\* step 3 of send_json_data: http_payload
PostPayload(json_string) ==
    S_POST \o ENDPOINT_POST \o S_HTTP11
    \o S_HostHdr \o HOST \o CRLF
    \o S_ConnHdr
    \o S_CTypeHdr
    \o S_CLenHdr \o DecStr(ContentLength(json_string)) \o CRLF
    \o CRLF
    \o json_string

\* the length send_json_data announces: len(http_payload.encode('utf-8'))
PostAnnouncedLength(payload) == Utf8Len(payload)

(***************************************************************************)
(* SensorFrameAssembler, line-atomic: main() of newlast.py and newsim3.py. *)
(***************************************************************************)
\* entries = [x.split('=') for x in line.split(',')]
Entries(line) ==
    LET segs == Split(line, COMMA) IN [i \in 1..Len(segs) |-> Split(segs[i], EQUALS)]

\* "for k, v in entries" raises ValueError on an entry that is no pair
UnpackOk(entries) == \A i \in 1..Len(entries) : Len(entries[i]) = 2

\* d[k] = v on a dict kept as a sequence of <<k, v>> in insertion order
DictPut(d, k, v) ==
    IF \E i \in 1..Len(d) : d[i][1] = k
    THEN [i \in 1..Len(d) |-> IF d[i][1] = k THEN <<k, v>> ELSE d[i]]
    ELSE Append(d, <<k, v>>)

\* {k.strip(): v.strip() for k, v in entries if len(k.strip()) > 0}
RECURSIVE DataDict(_, _)
DataDict(entries, d) ==
    IF entries = <<>> THEN d
    ELSE LET k == Strip(entries[1][1])
             v == Strip(entries[1][2])
         IN  DataDict(Tail(entries), IF Len(k) > 0 THEN DictPut(d, k, v) ELSE d)

(***************************************************************************)
(* The programs' state.                                                    *)
(***************************************************************************)
VARIABLES
    variant,      \* which program runs: "newlast", "newsim3" or "simnew"
    pc,           \* the position of the program
    exc,          \* the exception on its way out of main's try block
    exitCause,    \* why the process ended ("none" while it runs)
    modemOpen,    \* the modem link is open
    sensorOpen,   \* the sensor link is open
    rx,           \* markers in the modem link's input buffer, not yet read
    issued,       \* the commands written to the modem link so far
    nAttach,      \* how many AT+CGATT? queries were written
    step,         \* init_modem's loop index (steps list, or attach attempt)
    cpin,         \* the SIM-status response init_modem holds: "ready" or
                  \* "notready" ("unasked": none, before the query and once
                  \* init_modem has returned)
    attached,     \* a response to AT+CGATT? held "+CGATT: 1"
    openWin1,     \* "+CIPOPEN: 0,0" arrived in the read of send_at(open command)
    openWin2,     \* "+CIPOPEN: 0,0" arrived in the delayed read after it
    shutdownLog,  \* what the shutdown sequence (main's finally) has done
    line,         \* the sensor line being handled (stripped)
    data_dict,    \* line-atomic: the dict parsed from line
    readings,     \* line-atomic: json_payload_list of send_json_data
    buffer,       \* accumulating: main's buffer dict
    stale,        \* accumulating: keys of buffer whose value an earlier dispatch held
    announced,    \* the length in the AT+CIPSEND of this transmission (-1: none)
    written,      \* the payload bytes written in this transmission
    promptSeen,   \* ">" was read while waiting in this transmission
    polls,        \* reads done by the running wait_for
    waits,        \* wait_for calls finished in this transmission
    outcome,      \* how the handling of line ended
    window,       \* the command on the modem link whose response is yet to be
                  \* read or waited for ("none": the link is idle)
    abandoned,    \* what the modem holds of an announcement the program gave
                  \* up at the deadline: "none", or "awaiting" (its ">" was
                  \* sent, its payload bytes are awaited)
    keyword,      \* a call of wait_for on its own: its keyword
    chunks,       \* the bytes each ser.read of the call returns, read by read,
                  \* up to the deadline
    buf,          \* wait_for's buf
    nread,        \* the reads the call has done
    ret           \* what the call returned ("none": no call, "running")

vars == <<variant, pc, exc, exitCause, modemOpen, sensorOpen, rx, issued, nAttach,
          step, cpin, attached, openWin1, openWin2, shutdownLog, line, data_dict,
          readings, buffer, stale, announced, written, promptSeen, polls, waits,
          outcome, window, abandoned, keyword, chunks, buf, nread, ret>>

linkVars == <<modemOpen, sensorOpen>>
initGhost == <<cpin, attached, openWin1, openWin2>>
lineVars == <<line, data_dict, readings, buffer, stale, announced, written,
              promptSeen, polls, waits, outcome, window, abandoned>>

waitForVars == <<keyword, chunks, buf, nread, ret>>

\* {} : a dict with no key
EmptyDict == [k \in {} |-> <<>>]

Variants == {"newlast", "newsim3", "simnew"}
LineAtomic == {"newlast", "newsim3"}

(***************************************************************************)
(* The modem, as the programs see it: the markers they search for.  Any    *)
(* read may hold any of them; a late prompt may also arrive after a read   *)
(* and stay in the input buffer.                                           *)
(***************************************************************************)
CPIN_READY == "+CPIN: READY"
CGATT_1 == "+CGATT: 1"
NETOPEN_0 == "+NETOPEN: 0"
CIPOPEN_OK == "+CIPOPEN: 0,0"      \* f'+CIPOPEN: {SOCKET_ID},0'
PROMPT == ">"
Markers == {CPIN_READY, CGATT_1, NETOPEN_0, CIPOPEN_OK, PROMPT}
LateMarkers == {PROMPT}

\* what a serial write or read can do: succeed, or raise SerialException
IoResults == {"ok", "write_error", "read_error"}

main_start ==
    /\ variant \in Variants
    /\ pc = IF variant = "newlast" THEN "ATE0" ELSE "steps"
    /\ exc = "none"
    /\ exitCause = "none"
    /\ modemOpen = TRUE
    /\ sensorOpen = TRUE
    /\ rx = {}
    /\ issued = {}
    /\ nAttach = 0
    /\ step = 1
    /\ cpin = "unasked"
    /\ attached = FALSE
    /\ openWin1 = FALSE
    /\ openWin2 = FALSE
    /\ shutdownLog = <<>>
    /\ line = <<>>
    /\ data_dict = <<>>
    /\ readings = <<>>
    /\ buffer = EmptyDict
    /\ stale = {}
    /\ announced = -1
    /\ written = 0
    /\ promptSeen = FALSE
    /\ polls = 0
    /\ waits = 0
    /\ outcome = "none"
    /\ window = "none"
    /\ abandoned = "none"

\* the programs, from the start of main: no call of wait_for on its own
Init ==
    /\ main_start
    /\ keyword = <<>>
    /\ chunks = <<>>
    /\ buf = <<>>
    /\ nread = 0
    /\ ret = "none"

(***************************************************************************)
(* ATExchange.                                                             *)
(***************************************************************************)
\* the process ends here and now (sys.exit, or an exception nothing catches)
Die(cause) ==
    /\ pc' = "exited"
    /\ exitCause' = cause

\* send_at(ser, cmd, wait) when no call raises: cmd is written, and after the
\* sleep read_all() drains the input buffer; `late` arrives after that read.
\* The response is Response(arrived).
send_at(cmd, late) ==
    /\ issued' = issued \cup {cmd}
    /\ rx' = late

Response(arrived) == rx \cup arrived

\* send_at inside init_modem when ser.write or ser.read_all raises: nothing
\* catches the exception and the process ends with a traceback
send_at_raises(cmd, io) ==
    /\ io # "ok"
    /\ issued' = IF io = "read_error" THEN issued \cup {cmd} ELSE issued
    /\ Die("SerialException")
    /\ UNCHANGED <<variant, waitForVars, exc, linkVars, rx, nAttach, step, initGhost, shutdownLog,
                   lineVars>>

(***************************************************************************)
(* ModemLifecycle: init_modem of newlast.py.                               *)
(***************************************************************************)
\* a mutant of ATTACH_TRIES: one attach round too many
ATTACH_TRIES_one_more == 3 + 1

ATTACH_TRIES == 3

\* a step of init_modem whose response is not looked at
plain_step(at, cmd, next) ==
    /\ pc = at
    /\ \E io \in IoResults, late \in SUBSET LateMarkers :
          \/ /\ io = "ok"
             /\ send_at(cmd, late)
             /\ pc' = next
             /\ UNCHANGED <<variant, waitForVars, exc, exitCause, linkVars, nAttach, step, initGhost,
                            shutdownLog, lineVars>>
          \/ send_at_raises(cmd, io)

init_echo == variant = "newlast" /\ plain_step("ATE0", "ATE0", "CPIN")

init_cpin ==
    /\ variant = "newlast"
    /\ pc = "CPIN"
    /\ \E io \in IoResults, arrived \in SUBSET Markers, late \in SUBSET LateMarkers :
          \/ /\ io = "ok"
             /\ send_at("AT+CPIN?", late)
             /\ IF CPIN_READY \notin Response(arrived)
                THEN /\ cpin' = "notready"
                     /\ Die("SIM not ready")
                     /\ step' = step
                ELSE /\ cpin' = "ready"
                     /\ pc' = "CGATT"
                     /\ step' = 0
                     /\ exitCause' = exitCause
             /\ UNCHANGED <<variant, waitForVars, exc, linkVars, nAttach, attached, openWin1, openWin2,
                            shutdownLog, lineVars>>
          \/ send_at_raises("AT+CPIN?", io)

\* one round of "for i in range(3)", with the loop's else clause
init_cgatt ==
    /\ variant = "newlast"
    /\ pc = "CGATT"
    /\ step < ATTACH_TRIES
    /\ \E io \in IoResults, arrived \in SUBSET Markers, late \in SUBSET LateMarkers :
          \/ /\ io = "ok"
             /\ send_at("AT+CGATT?", late)
             /\ nAttach' = nAttach + 1
             /\ IF CGATT_1 \in Response(arrived)
                THEN /\ attached' = TRUE
                     /\ pc' = "CGDCONT"
                     /\ UNCHANGED <<step, exitCause>>
                ELSE /\ attached' = attached
                     /\ step' = step + 1
                     /\ IF step + 1 = ATTACH_TRIES
                        THEN Die("network attach failed")
                        ELSE UNCHANGED <<pc, exitCause>>
             /\ UNCHANGED <<variant, waitForVars, exc, linkVars, cpin, openWin1, openWin2,
                            shutdownLog, lineVars>>
          \/ /\ io # "ok"
             /\ issued' = IF io = "read_error" THEN issued \cup {"AT+CGATT?"} ELSE issued
             /\ nAttach' = IF io = "read_error" THEN nAttach + 1 ELSE nAttach
             /\ Die("SerialException")
             /\ UNCHANGED <<variant, waitForVars, exc, linkVars, rx, step, initGhost, shutdownLog,
                            lineVars>>

init_apn == variant = "newlast" /\ plain_step("CGDCONT", "AT+CGDCONT", "NETCLOSE")

init_netclose == variant = "newlast" /\ plain_step("NETCLOSE", "AT+NETCLOSE", "NETOPEN")

init_netopen ==
    /\ variant = "newlast"
    /\ pc = "NETOPEN"
    /\ \E io \in IoResults, arrived \in SUBSET Markers, late \in SUBSET LateMarkers :
          \/ /\ io = "ok"
             /\ send_at("AT+NETOPEN", late)
             /\ IF NETOPEN_0 \notin Response(arrived)
                THEN Die("bearer open failed")
                ELSE pc' = "IPADDR" /\ exitCause' = exitCause
             /\ UNCHANGED <<variant, waitForVars, exc, linkVars, nAttach, step, initGhost,
                            shutdownLog, lineVars>>
          \/ send_at_raises("AT+NETOPEN", io)

init_ipaddr == variant = "newlast" /\ plain_step("IPADDR", "AT+IPADDR", "CIPOPEN")

\* the socket open of newlast.py: the response is read and not looked at
\* (the test of the marker is commented out)
init_cipopen_newlast ==
    /\ variant = "newlast"
    /\ pc = "CIPOPEN"
    /\ \E io \in IoResults, arrived \in SUBSET Markers, late \in SUBSET LateMarkers :
          \/ /\ io = "ok"
             /\ send_at("AT+CIPOPEN", late)
             /\ openWin1' = (CIPOPEN_OK \in Response(arrived))
             /\ pc' = "readline"
             /\ step' = 0
             /\ cpin' = "unasked"
             /\ UNCHANGED <<variant, waitForVars, exc, exitCause, linkVars, nAttach,
                            attached, openWin2, shutdownLog, lineVars>>
          \/ send_at_raises("AT+CIPOPEN", io)

(***************************************************************************)
(* ModemLifecycle: init_modem of simnew.py and newsim3.py.                 *)
(***************************************************************************)
Steps == <<"AT", "ATE0", "AT+CPIN?", "AT+CGATT?", "AT+CGDCONT", "AT+NETOPEN", "AT+IPADDR">>

\* one round of "for cmd, wait in steps: send_at(ser, cmd, wait)"
init_steps ==
    /\ variant \in {"simnew", "newsim3"}
    /\ pc = "steps"
    /\ LET cmd == Steps[step]
       IN  \E io \in IoResults, arrived \in SUBSET Markers, late \in SUBSET LateMarkers :
             /\ IF io = "ok"
                THEN /\ send_at(cmd, late)
                     /\ step' = step + 1
                     /\ pc' = IF step = Len(Steps) THEN "CIPOPEN" ELSE "steps"
                     /\ exitCause' = exitCause
                ELSE /\ issued' = IF io = "read_error" THEN issued \cup {cmd} ELSE issued
                     /\ Die("SerialException")
                     /\ UNCHANGED <<rx, step>>
             /\ nAttach' = IF cmd = "AT+CGATT?" /\ io # "write_error"
                           THEN nAttach + 1 ELSE nAttach
             /\ cpin' = IF cmd = "AT+CPIN?" /\ io = "ok"
                        THEN (IF CPIN_READY \in Response(arrived) THEN "ready" ELSE "notready")
                        ELSE cpin
             /\ attached' = IF cmd = "AT+CGATT?" /\ io = "ok"
                            THEN CGATT_1 \in Response(arrived) ELSE attached
             /\ UNCHANGED <<variant, waitForVars, exc, linkVars, openWin1, openWin2, shutdownLog,
                            lineVars>>

\* send_at(ser, open_cmd, wait): the response is returned and dropped
init_cipopen ==
    /\ variant \in {"simnew", "newsim3"}
    /\ pc = "CIPOPEN"
    /\ \E io \in IoResults, arrived \in SUBSET Markers, late \in SUBSET LateMarkers :
          \/ /\ io = "ok"
             /\ send_at("AT+CIPOPEN", late)
             /\ openWin1' = (CIPOPEN_OK \in Response(arrived))
             /\ pc' = "CIPOPEN_check"
             /\ UNCHANGED <<variant, waitForVars, exc, exitCause, linkVars, nAttach, step, cpin,
                            attached, openWin2, shutdownLog, lineVars>>
          \/ send_at_raises("AT+CIPOPEN", io)

\* the test of what the second read holds
cipopen_test(combo) ==
    IF CIPOPEN_OK \in combo
    THEN pc' = "readline" /\ exitCause' = exitCause /\ step' = 0 /\ cpin' = "unasked"
    ELSE Die("socket open failed") /\ UNCHANGED <<step, cpin>>

\* simnew.py: time.sleep(1); combo = ser.read_all(); the test of combo
init_cipopen_check_simnew ==
    /\ variant = "simnew"
    /\ pc = "CIPOPEN_check"
    /\ \E io \in {"ok", "read_error"}, arrived \in SUBSET Markers,
          late \in SUBSET LateMarkers :
          /\ IF io = "ok"
             THEN /\ rx' = late
                  /\ openWin2' = (CIPOPEN_OK \in Response(arrived))
                  /\ cipopen_test(Response(arrived))
             ELSE /\ Die("SerialException")
                  /\ UNCHANGED <<rx, openWin2, step, cpin>>
          /\ UNCHANGED <<variant, waitForVars, exc, linkVars, issued, nAttach, attached,
                         openWin1, shutdownLog, lineVars>>

\* newsim3.py: response = send_at(ser, '', wait=0); the test of response
init_cipopen_check_newsim3 ==
    /\ variant = "newsim3"
    /\ pc = "CIPOPEN_check"
    /\ \E io \in IoResults, arrived \in SUBSET Markers, late \in SUBSET LateMarkers :
          \/ /\ io = "ok"
             /\ send_at("", late)
             /\ openWin2' = (CIPOPEN_OK \in Response(arrived))
             /\ cipopen_test(Response(arrived))
             /\ UNCHANGED <<variant, waitForVars, exc, linkVars, nAttach, attached,
                            openWin1, shutdownLog, lineVars>>
          \/ send_at_raises("", io)

init_modem ==
    \/ init_echo
    \/ init_cpin
    \/ init_cgatt
    \/ init_apn
    \/ init_netclose
    \/ init_netopen
    \/ init_ipaddr
    \/ init_cipopen_newlast
    \/ init_steps
    \/ init_cipopen
    \/ init_cipopen_check_simnew
    \/ init_cipopen_check_newsim3

(***************************************************************************)
(* The sensor: the lines it may send.                                      *)
(***************************************************************************)
\* segments of a line-atomic sensor line
AtomicSegs ==
    { <<32, 84, 69, 77, 80, 32, 61, 32, 51, 54, 46, 50>>,  \* " TEMP = 36.2"
      <<114, 112, 109, 61, 120>>,                          \* "rpm=x"
      <<61, 53>>,                                          \* "=5"
      <<114, 112, 109>>,                                   \* "rpm"
      <<114, 112, 109, 61, 110, 97, 110>>,                 \* "rpm=nan"
      <<233, 61, 55>> }                                    \* "é=7"

RECURSIVE SegSeqs(_)
SegSeqs(n) ==
    IF n = 0 THEN {<<>>}
    ELSE LET shorter == SegSeqs(n - 1)
         IN  shorter \cup {Append(q, x) : q \in {r \in shorter : Len(r) = n - 1}, x \in AtomicSegs}

\* what sensor.readline() may return to newlast.py and newsim3.py, decoded:
\* nothing (a timeout), or 1..MaxSegs segments joined by commas
AtomicLines == {Join(q, COMMA) : q \in SegSeqs(MaxSegs)}

\* what sensor.readline() may return to simnew.py, decoded
AccumLines ==
    { <<>>,
      <<83, 80, 69, 69, 68, 61, 53, 48>>,                  \* "SPEED=50"
      <<84, 69, 77, 80, 61, 51, 54, 176>>,                 \* "TEMP=36°"
      <<116, 101, 109, 112, 61, 51, 54, 46, 50>>,          \* "temp=36.2"
      <<71, 69, 65, 82, 61, 51>>,                          \* "GEAR=3"
      <<70, 85, 69, 76, 61, 56, 48>>,                      \* "FUEL=80"
      <<82, 80, 77, 61, 51, 50, 48, 48>>,                  \* "RPM=3200"
      <<32, 114, 112, 109, 32, 61, 32, 51, 50, 48, 48, 32>>,   \* " rpm = 3200 "
      <<70, 79, 79, 61, 49>>,                              \* "FOO=1"
      <<84, 69, 77, 80, 61>>,                              \* "TEMP="
      <<103, 97, 114, 98, 97, 103, 101>> }                 \* "garbage"

(***************************************************************************)
(* TransmissionPipeline.                                                   *)
(***************************************************************************)
\* the payload of the transmission under way
HttpPayload ==
    IF variant = "simnew" THEN GetPayload(buffer) ELSE PostPayload(JsonDumps(readings))

\* the length AT+CIPSEND announces for it
payload_length(payload) ==
    IF variant = "simnew" THEN GetAnnouncedLength(payload) ELSE PostAnnouncedLength(payload)

\* the bytes ser.write(payload.encode()) writes
EncodedBytes(payload) == Utf8Len(payload)

\* the prompt timeouts a transmission waits through: simnew.py retries once
PromptWaits == IF variant = "simnew" THEN 2 ELSE 1

\* the handling of a line ends with nothing written to the modem link
no_transmission(result) ==
    /\ pc' = "loop_end"
    /\ outcome' = result
    /\ announced' = -1
    /\ written' = 0
    /\ promptSeen' = FALSE
    /\ polls' = 0
    /\ waits' = 0
    /\ window' = "none"
    /\ UNCHANGED <<rx, issued, abandoned>>

\* steps 1-2 of the protocol: ser.reset_input_buffer(), then the write of
\* AT+CIPSEND=<socket>,<length>; an exception goes to main's handler
announce(payload, late, io) ==
    IF io = "ok"
    THEN /\ rx' = late
         /\ issued' = issued \cup {"AT+CIPSEND"}
         /\ announced' = payload_length(payload)
         /\ pc' = "wait_for"
         /\ outcome' = "pending"
         /\ written' = 0
         /\ promptSeen' = FALSE
         /\ polls' = 0
         /\ waits' = 0
         /\ window' = "AT+CIPSEND"
         /\ abandoned' = abandoned
    ELSE no_transmission("error")

\* the call of send_json_data / send_data is over, by return or by an
\* exception that main's handler caught; in simnew.py buffer.clear() follows
\* a call that returned
end_of_send(result, raised) ==
    /\ pc' = "loop_end"
    /\ outcome' = result
    /\ window' = "none"
    /\ IF variant = "simnew"
       THEN IF raised
            THEN buffer' = buffer /\ stale' = DOMAIN buffer
            ELSE buffer' = EmptyDict /\ stale' = {}
       ELSE UNCHANGED <<buffer, stale>>

\* the program gives up, at the deadline, an announcement it has written:
\* when the modem's ">" is in the input buffer by then, the modem has taken
\* the announcement and awaits its payload bytes
give_up ==
    abandoned' = IF PROMPT \in rx' THEN "awaiting" ELSE abandoned

\* a mutant of no_prompt: the payload is written although no prompt came
no_prompt_writes_anyway ==
    /\ polls' = 0
    /\ waits' = waits + 1
    /\ pc' = "payload"
    /\ UNCHANGED <<outcome, buffer, stale, window, abandoned>>

\* a mutant of no_prompt: the wait for the prompt is started again, as often
\* as it times out
no_prompt_waits_again ==
    /\ polls' = 0
    /\ UNCHANGED <<pc, waits, outcome, buffer, stale, window, abandoned>>

\* the caller's handling of wait_for's False: newlast.py and newsim3.py skip
\* the send; simnew.py sleeps, waits once more, then skips
no_prompt ==
    IF waits + 1 < PromptWaits
    THEN /\ polls' = 0
         /\ waits' = waits + 1
         /\ UNCHANGED <<pc, outcome, buffer, stale, window, abandoned>>
    ELSE /\ polls' = 0
         /\ waits' = waits + 1
         /\ end_of_send("skipped", FALSE)
         /\ give_up

\* one read of wait_for(ser, '>'): ser.read(ser.in_waiting or 1) and the test
\* of the keyword (one character: what earlier reads held cannot complete a
\* match); at the deadline, wait_for returns False
wait_for ==
    /\ pc = "wait_for"
    /\ polls < MaxPolls
    /\ \E io \in {"ok", "read_error"}, arrived \in SUBSET {PROMPT},
          late \in SUBSET LateMarkers :
          /\ IF io # "ok"
             THEN /\ end_of_send("error", TRUE)
                  /\ UNCHANGED <<rx, promptSeen, polls, waits, abandoned>>
             ELSE /\ rx' = late
                  /\ IF PROMPT \in Response(arrived)
                     THEN /\ promptSeen' = TRUE
                          /\ pc' = "payload"
                          /\ window' = "none"
                          /\ UNCHANGED <<polls, waits, outcome, buffer, stale,
                                         abandoned>>
                     ELSE /\ promptSeen' = promptSeen
                          /\ IF polls + 1 < MaxPolls
                             THEN /\ polls' = polls + 1
                                  /\ UNCHANGED <<pc, waits, outcome, buffer, stale,
                                                 window, abandoned>>
                             ELSE no_prompt
          /\ UNCHANGED <<variant, waitForVars, exc, exitCause, linkVars, issued, nAttach, step,
                         initGhost, shutdownLog, line, data_dict, readings, announced,
                         written>>

\* steps 5-6 of the protocol: the write of the payload, the settle delay and
\* the read of the modem's answer
send_payload ==
    /\ pc = "payload"
    /\ \E io \in IoResults, late \in SUBSET LateMarkers :
          /\ written' = IF io = "write_error" THEN 0 ELSE EncodedBytes(HttpPayload)
          /\ rx' = IF io = "ok" THEN late ELSE rx
          /\ abandoned' = IF io = "write_error" THEN abandoned ELSE "none"
          /\ IF io = "ok"
             THEN end_of_send("sent", FALSE)
             ELSE end_of_send("error", TRUE)
          /\ UNCHANGED <<variant, waitForVars, exc, exitCause, linkVars, issued, nAttach, step,
                         initGhost, shutdownLog, line, data_dict, readings, announced,
                         promptSeen, polls, waits>>

(***************************************************************************)
(* main of newlast.py and newsim3.py: one round of the loop, up to the     *)
(* send announcement.                                                      *)
(***************************************************************************)
\* the loop's variables before a line is read
fresh_line ==
    /\ line' = <<>>
    /\ data_dict' = <<>>
    /\ readings' = <<>>
    /\ announced' = -1
    /\ written' = 0
    /\ promptSeen' = FALSE
    /\ polls' = 0
    /\ waits' = 0
    /\ outcome' = "none"

\* sensor.readline() raises: the exception leaves the loop, and main's
\* finally block runs
sensor_read_raises ==
    /\ pc = "readline"
    /\ exc' = "SerialException"
    /\ pc' = "finally"
    /\ UNCHANGED <<variant, waitForVars, exitCause, linkVars, rx, issued, nAttach, step, initGhost,
                   shutdownLog, lineVars>>

\* a mutant of send_json_data: an empty json_payload_list is sent too
send_json_data_sends_empty(params) ==
    /\ readings' = Readings(params)
    /\ \E io \in {"ok", "write_error"}, late \in SUBSET LateMarkers :
          announce(PostPayload(JsonDumps(Readings(params))), late, io)

\* send_json_data(ser, params) up to the write of AT+CIPSEND
send_json_data(params) ==
    LET json_payload_list == Readings(params)
    IN  /\ readings' = json_payload_list
        /\ IF json_payload_list = <<>>
           THEN no_transmission("nothing")
           ELSE \E io \in {"ok", "write_error"}, late \in SUBSET LateMarkers :
                   announce(PostPayload(JsonDumps(json_payload_list)), late, io)

main_line_atomic ==
    /\ variant \in LineAtomic
    /\ pc = "readline"
    /\ \E raw \in AtomicLines :
          /\ line' = Strip(raw)
          /\ IF line' = <<>>
             THEN /\ UNCHANGED <<pc, rx, issued, data_dict, readings, announced, written,
                                 promptSeen, polls, waits, outcome, window, abandoned>>
             ELSE IF ~UnpackOk(Entries(line'))
             THEN /\ data_dict' = <<>>
                  /\ readings' = <<>>
                  /\ no_transmission("error")
             ELSE /\ data_dict' = DataDict(Entries(line'), <<>>)
                  /\ IF data_dict' = <<>>
                     THEN /\ readings' = <<>>
                          /\ no_transmission("malformed")
                     ELSE send_json_data(data_dict')
    /\ UNCHANGED <<variant, waitForVars, exc, exitCause, linkVars, nAttach, step, initGhost,
                   shutdownLog, buffer, stale>>

(***************************************************************************)
(* main of simnew.py: one round of the loop, up to the send announcement.  *)
(***************************************************************************)
\* buffer[key] = val
BufferPut(b, key, val) ==
    [k \in DOMAIN b \cup {key} |-> IF k = key THEN val ELSE b[k]]

\* EXPECTED_KEYS.issubset(buffer.keys())
FrameComplete(b) == EXPECTED_KEYS \subseteq DOMAIN b

\* a mutant of PairKey: the key is not upper-cased
PairKey_as_received(raw) == Strip(SubSeq(raw, 1, IndexOf(raw, EQUALS) - 1))

\* key, val = raw.split('=', 1); key = key.strip().upper(); val = val.strip()
PairKey(raw) == Upper(Strip(SubSeq(raw, 1, IndexOf(raw, EQUALS) - 1)))
PairVal(raw) == Strip(SubSeq(raw, IndexOf(raw, EQUALS) + 1, Len(raw)))

\* send_data(ser, params) up to the write of AT+CIPSEND
send_data(params) ==
    \E io \in {"ok", "write_error"}, late \in SUBSET LateMarkers :
       announce(GetPayload(params), late, io)

main_accumulating ==
    /\ variant = "simnew"
    /\ pc = "readline"
    /\ \E line_in \in AccumLines :
          LET raw == Strip(line_in)
              key == PairKey(raw)
              val == PairVal(raw)
          IN  /\ line' = raw
              /\ IF raw = <<>>
                 THEN UNCHANGED <<pc, rx, issued, buffer, stale, announced, written,
                                  promptSeen, polls, waits, outcome, window, abandoned>>
                 ELSE IF ~Contains(raw, EQUALS)
                 THEN no_transmission("malformed") /\ UNCHANGED <<buffer, stale>>
                 ELSE IF key \notin EXPECTED_KEYS \/ val = <<>>
                 THEN no_transmission("ignored") /\ UNCHANGED <<buffer, stale>>
                 ELSE /\ buffer' = BufferPut(buffer, key, val)
                      /\ IF FrameComplete(buffer')
                         THEN /\ send_data(buffer')
                              /\ stale' = IF pc' = "wait_for" THEN stale \ {key}
                                          ELSE DOMAIN buffer'
                         ELSE /\ no_transmission("accumulated")
                              /\ stale' = stale \ {key}
    /\ UNCHANGED <<variant, waitForVars, exc, exitCause, linkVars, nAttach, step, initGhost,
                   shutdownLog, data_dict, readings>>

\* the end of the loop body: time.sleep(2) (simnew.py: time.sleep(0.5) after a
\* dispatch), then the loop's head
loop_end ==
    /\ pc = "loop_end"
    /\ pc' = "readline"
    /\ fresh_line
    /\ UNCHANGED <<variant, waitForVars, exc, exitCause, linkVars, rx, issued, nAttach, step,
                   initGhost, shutdownLog, buffer, stale, window, abandoned>>

(***************************************************************************)
(* The user interrupt (Ctrl+C).                                            *)
(***************************************************************************)
MainLoopPcs == {"readline", "wait_for", "payload", "loop_end"}

\* KeyboardInterrupt: inside main's try block it is caught and the finally
\* block runs (the loop's variables are not used again); in init_modem
\* nothing catches it; in the finally block it ends the block, except in
\* simnew.py's "try: ... except: pass"
interrupt ==
    /\ pc # "exited"
    /\ IF pc \in MainLoopPcs
       THEN /\ pc' = "finally"
            /\ exc' = "KeyboardInterrupt"
            /\ exitCause' = exitCause
            /\ window' = "none"
            /\ fresh_line
       ELSE /\ IF variant = "simnew" /\ pc \in {"finally", "fin_netclose"}
               THEN pc' = "fin_close" /\ UNCHANGED <<exc, exitCause>>
               ELSE Die("KeyboardInterrupt") /\ exc' = exc
            /\ UNCHANGED <<line, data_dict, readings, announced, written, promptSeen,
                           polls, waits, outcome, window>>
    /\ UNCHANGED <<variant, waitForVars, linkVars, rx, issued, nAttach, step, initGhost,
                   shutdownLog, buffer, stale, abandoned>>

(***************************************************************************)
(* The shutdown sequence: the finally block of main.                       *)
(***************************************************************************)
\* how the process ends once the finally block is through
EndOfMain == IF exc = "KeyboardInterrupt" THEN "shut down" ELSE exc

\* newlast.py, newsim3.py: send_at(modem, f'AT+CIPCLOSE={SOCKET_ID}', 2)
\* then send_at(modem, 'AT+NETCLOSE', 1); an exception leaves the block
shutdown_send_at ==
    /\ variant \in LineAtomic
    /\ pc \in {"finally", "fin_netclose"}
    /\ LET cmd == IF pc = "finally" THEN "AT+CIPCLOSE" ELSE "AT+NETCLOSE"
       IN  \E io \in IoResults, late \in SUBSET LateMarkers :
             /\ IF io = "ok"
                THEN /\ send_at(cmd, late)
                     /\ shutdownLog' = Append(shutdownLog, cmd)
                     /\ pc' = IF pc = "finally" THEN "fin_netclose" ELSE "fin_close"
                     /\ exitCause' = exitCause
                ELSE /\ issued' = IF io = "read_error" THEN issued \cup {cmd} ELSE issued
                     /\ shutdownLog' = IF io = "read_error" THEN Append(shutdownLog, cmd)
                                       ELSE shutdownLog
                     /\ rx' = rx
                     /\ Die("SerialException")
    /\ UNCHANGED <<variant, waitForVars, exc, linkVars, nAttach, step, initGhost, lineVars>>

\* simnew.py: modem.write(AT+CIPCLOSE), modem.write(AT+NETCLOSE) inside
\* "try: ... except: pass": a write that raises ends the try block; no
\* response is read
shutdown_write ==
    /\ variant = "simnew"
    /\ pc \in {"finally", "fin_netclose"}
    /\ LET cmd == IF pc = "finally" THEN "AT+CIPCLOSE" ELSE "AT+NETCLOSE"
       IN  \E io \in {"ok", "write_error"} :
             IF io = "ok"
             THEN /\ issued' = issued \cup {cmd}
                  /\ shutdownLog' = Append(shutdownLog, cmd)
                  /\ window' = cmd
                  /\ pc' = IF pc = "finally" THEN "fin_netclose" ELSE "fin_close"
             ELSE /\ UNCHANGED <<issued, shutdownLog, window>>
                  /\ pc' = "fin_close"
    /\ UNCHANGED <<variant, waitForVars, exc, exitCause, linkVars, rx, nAttach, step, initGhost,
                   line, data_dict, readings, buffer, stale, announced, written,
                   promptSeen, polls, waits, outcome, abandoned>>

\* modem.close(); sensor.close(); the end of the process
shutdown_close ==
    /\ pc = "fin_close"
    /\ modemOpen' = FALSE
    /\ sensorOpen' = FALSE
    /\ shutdownLog' = shutdownLog \o <<"modem.close", "sensor.close">>
    /\ Die(EndOfMain)
    /\ UNCHANGED <<variant, waitForVars, exc, rx, issued, nAttach, step, initGhost, lineVars>>

main ==
    \/ sensor_read_raises
    \/ main_line_atomic
    \/ main_accumulating
    \/ wait_for
    \/ send_payload
    \/ loop_end
    \/ shutdown_send_at
    \/ shutdown_write
    \/ shutdown_close

Next == init_modem \/ main \/ interrupt

Spec == Init /\ [][Next]_vars

(***************************************************************************)
(* wait_for(ser, keyword, timeout) on its own: a call with any keyword,    *)
(* on any bytes.                                                           *)
(***************************************************************************)
\* what one ser.read(ser.in_waiting or 1) may return: the bytes of ">",
\* "O", "K", "OK", of "é" (0xC3 0xA9) whole and in halves, alone and next
\* to other characters, a byte that is never valid, and nothing (the read
\* timed out)
ReadChunks ==
    { <<>>, <<62>>, <<79>>, <<75>>, <<79, 75>>, <<195, 169>>, <<195>>, <<169>>,
      <<79, 195>>, <<169, 75>>, <<255>> }

\* the keywords waited for: ">", "OK", "é"
Keywords == { <<62>>, <<79, 75>>, <<233>> }

RECURSIVE ChunkSeqs(_)
ChunkSeqs(n) ==
    IF n = 0 THEN {<<>>}
    ELSE LET shorter == ChunkSeqs(n - 1)
         IN  shorter \cup {Append(q, x) : q \in {r \in shorter : Len(r) = n - 1},
                                           x \in ReadChunks}

programVars == <<variant, pc, exc, exitCause, modemOpen, sensorOpen, rx, issued, nAttach,
                 step, cpin, attached, openWin1, openWin2, shutdownLog, line, data_dict,
                 readings, buffer, stale, announced, written, promptSeen, polls, waits,
                 outcome, window, abandoned>>

\* deadline = time.time() + timeout; buf = ''
InitWaitFor ==
    /\ main_start
    /\ keyword \in Keywords
    /\ chunks \in ChunkSeqs(MaxPolls)
    /\ buf = <<>>
    /\ nread = 0
    /\ ret = "running"

\* one round of the while loop: time.time() < deadline, the read, its
\* decoding, the test of the keyword
wait_for_read ==
    /\ ret = "running"
    /\ nread < Len(chunks)
    /\ buf' = buf \o decode(chunks[nread + 1])
    /\ nread' = nread + 1
    /\ ret' = IF Occurs(keyword, buf') THEN "True" ELSE "running"
    /\ UNCHANGED <<programVars, keyword, chunks>>

\* the deadline has passed: return False
wait_for_timeout ==
    /\ ret = "running"
    /\ nread = Len(chunks)
    /\ ret' = "False"
    /\ UNCHANGED <<programVars, keyword, chunks, buf, nread>>

NextWaitFor == wait_for_read \/ wait_for_timeout

SpecWaitFor == InitWaitFor /\ [][NextWaitFor]_vars

(***************************************************************************)
(* Properties.                                                             *)
(***************************************************************************)
\* the program has handled `line` (it is past the parse)
LineHandled == line # <<>> /\ pc \in {"wait_for", "payload", "loop_end"}

\* C1: for every transmission that reaches the payload write, the length
\* announced in AT+CIPSEND equals the number of encoded bytes written.
C1_AnnouncedLengthIsBytesWritten == written > 0 => announced = written

\* C2: a send announcement is issued only after the socket-open success
\* marker was observed in the modem's output.
C2_AnnounceOnlyAfterOpenMarker ==
    "AT+CIPSEND" \in issued => (openWin1 \/ openWin2)

\* C3: if the socket-open success marker arrives in either of the two read
\* windows, the socket open does not fail.
C3_MarkerInEitherWindowOpens ==
    (openWin1 \/ openWin2) => exitCause # "socket open failed"

AfterSimStatus == {"AT+CGATT?", "AT+CGDCONT", "AT+NETOPEN", "AT+CIPOPEN"}

\* C4: when the SIM-status response lacks "+CPIN: READY", initialisation
\* aborts with the SIM-not-ready error and no attach query, APN
\* configuration, bearer-open or socket-open command is issued.
C4_SimNotReadyAborts ==
    cpin = "notready" =>
        /\ pc = "exited"
        /\ exitCause = "SIM not ready"
        /\ issued \cap AfterSimStatus = {}

AfterAttach == {"AT+CGDCONT", "AT+NETOPEN", "AT+CIPOPEN"}

\* the next command init_modem writes is the APN configuration
AboutToConfigureApn ==
    \/ variant = "newlast" /\ pc = "CGDCONT"
    \/ variant # "newlast" /\ pc = "steps" /\ Steps[step] = "AT+CGDCONT"

\* C5: AT+CGATT? is written at most 3 times; once a response holds
\* "+CGATT: 1" no further attach query is written and the APN configuration
\* is next; when 3 responses lacked it the process has ended, without an APN
\* configuration, bearer-open or socket-open command.
C5_AttachQueriedAtMostThrice ==
    [][ /\ nAttach' <= 3
        /\ attached => nAttach' = nAttach
        /\ (~attached /\ attached') => AboutToConfigureApn'
        /\ (nAttach' = 3 /\ ~attached') =>
              /\ pc' = "exited"
              /\ exitCause' \in {"network attach failed", "SerialException"}
              /\ issued' \cap AfterAttach = {} ]_vars

C5_Witness ==
    /\ exitCause = "network attach failed"
    /\ nAttach = 3
    /\ ~attached

FatalInit ==
    {"SIM not ready", "network attach failed", "bearer open failed", "socket open failed"}

\* C6: every fatal initialisation condition ends the process only after the
\* socket-close and bearer-close commands were written by the shutdown
\* sequence.
C6_FatalInitTearsDown ==
    exitCause \in FatalInit =>
        \E i, j \in 1..Len(shutdownLog) :
            shutdownLog[i] = "AT+CIPCLOSE" /\ shutdownLog[j] = "AT+NETCLOSE"

\* C7: payload bytes are written only after ">" was read; a wait that ends
\* without the prompt ends the transmission as skipped with no byte written;
\* and from there the loop goes back to reading the sensor.
C7_NoPromptSkips ==
    [][ /\ written' > 0 => promptSeen'
        /\ (pc = "wait_for" /\ pc' = "loop_end" /\ outcome' # "error") =>
              (outcome' = "skipped" /\ written' = 0 /\ ~promptSeen')
        /\ (pc = "wait_for" /\ pc' = "payload") => promptSeen'
        /\ (pc = "loop_end" /\ outcome = "skipped" /\ pc' # "finally") =>
              pc' = "readline" ]_vars

C7_Witness ==
    /\ pc = "loop_end"
    /\ outcome = "skipped"
    /\ announced > 0
    /\ written = 0

\* the comma-separated segments of a line that are a well-formed key=value
\* pair with a numeric value
NumericPairs(l) ==
    LET e == Entries(l)
    IN  {i \in 1..Len(e) : /\ Len(e[i]) = 2
                           /\ Strip(e[i][1]) # <<>>
                           /\ float(e[i][2]) # ValueError}

\* C8: in the line-atomic policy, a handled line with a well-formed numeric
\* key=value pair has, among its readings, the entry of such a pair.
C8_NumericPairIsRead ==
    (variant \in LineAtomic /\ LineHandled /\ NumericPairs(line) # {}) =>
        \E i \in NumericPairs(line), j \in 1..Len(readings) :
            /\ readings[j].sensor_type = SensorType(Entries(line)[i][1])
            /\ readings[j].value = float(Entries(line)[i][2])

\* C9: in the line-atomic programs, a line with zero parseable pairs causes
\* no send announcement and no payload write.
C9_NoPairNoTransmission ==
    (variant \in LineAtomic /\ line # <<>> /\ NumericPairs(line) = {}) =>
        /\ pc \notin {"wait_for", "payload"}
        /\ announced = -1
        /\ written = 0

C9_Witness ==
    /\ variant \in LineAtomic
    /\ pc = "loop_end"
    /\ outcome = "nothing"
    /\ data_dict # <<>>
    /\ NumericPairs(line) = {}

\* C10: in the accumulating policy, whatever the outcome of a dispatch, the
\* frame under dispatch holds no key received before an earlier dispatch.
C10_NoKeyLeaksIntoNextFrame ==
    (variant = "simnew" /\ pc \in {"wait_for", "payload"}) => stale = {}

\* raw is a key=value line of a required key with a non-empty value
ValidPair(raw) ==
    /\ Contains(raw, EQUALS)
    /\ PairKey(raw) \in EXPECTED_KEYS
    /\ PairVal(raw) # <<>>

\* the keys received with a non-empty value since the last call of send_data,
\* the line raw included
ReceivedWith(raw) ==
    (DOMAIN buffer \ stale) \cup (IF ValidPair(raw) THEN {PairKey(raw)} ELSE {})

\* C11: in the accumulating policy, send_data is called on a sensor line if
\* and only if, with that line, all five required keys have been received
\* with a non-empty value since the last dispatch.
C11_DispatchIffAllFiveSinceLast ==
    [][ (variant = "simnew" /\ pc = "readline" /\ pc' \in {"wait_for", "loop_end"}) =>
           ((pc' = "wait_for" \/ outcome' = "error")
               <=> ReceivedWith(line') = EXPECTED_KEYS) ]_vars

\* the shutdown sequence, run to completion
FullShutdown == <<"AT+CIPCLOSE", "AT+NETCLOSE", "modem.close", "sensor.close">>

\* C12: when the process has left the main loop and then ended (a second
\* user interrupt aside), the shutdown sequence ran to completion:
\* socket-close, bearer-close, then both links closed, also when a step of
\* the sequence failed.
C12_ShutdownRunsToCompletion ==
    (pc = "exited" /\ exc # "none" /\ exitCause # "KeyboardInterrupt") =>
        /\ shutdownLog = FullShutdown
        /\ ~modemOpen
        /\ ~sensorOpen

\* C13: no failure raised while a sensor line is read, parsed, encoded or
\* transmitted ends the main loop: the loop is left by the user interrupt
\* only, and after a failure the next sensor line is read.
C13_NoLineFailureEndsTheLoop ==
    [][ /\ (pc \in MainLoopPcs /\ pc' \notin MainLoopPcs) => exc' = "KeyboardInterrupt"
        /\ (pc \in MainLoopPcs /\ outcome' = "error") => pc' = "loop_end"
        /\ (pc = "loop_end" /\ pc' \in MainLoopPcs) => pc' = "readline" ]_vars

\* C14: every reading of a payload under transmission has a finite number
\* as its value: a raw value that is no number, or NaN or an infinity, is
\* not forwarded.
C14_OnlyFiniteValuesForwarded ==
    pc \in {"wait_for", "payload"} =>
        IF variant = "simnew"
        THEN \A k \in DOMAIN buffer : IsFinite(float(buffer[k]))
        ELSE \A j \in 1..Len(readings) : IsFinite(readings[j].value)

\* an HTTP message as its receiver reads it: the header block ends at the
\* first blank line, the body is all that follows it
HeaderEnd(msg) == FindSub(msg, CRLF \o CRLF)
HeaderBlock(msg) == SubSeq(msg, 1, HeaderEnd(msg) + 1)
Body(msg) == SubSeq(msg, HeaderEnd(msg) + 4, Len(msg))

\* the number the Content-Length header of msg gives (-1 when there is no
\* such header, or no number in it)
DeclaredLength(msg) ==
    LET h == HeaderBlock(msg)
        i == FindSub(h, CRLF \o S_CLenHdr)
        rest == SubSeq(h, i + Len(CRLF) + Len(S_CLenHdr), Len(h))
        digits == SubSeq(rest, 1, FindSub(rest, CRLF) - 1)
    IN  IF i = 0 \/ digits = <<>> \/ ~AllDigits(digits) THEN -1 ELSE DigitsVal(digits)

\* C15: in every POST payload send_json_data builds, the Content-Length
\* header gives the number of encoded bytes of the JSON body, and one blank
\* line, CRLF-terminated, separates the header block from that body.
C15_ContentLengthIsBodyBytes ==
    (variant \in LineAtomic /\ pc \in {"wait_for", "payload"}) =>
        /\ HeaderEnd(HttpPayload) > 0
        /\ Body(HttpPayload) = JsonDumps(readings)
        /\ Head(Body(HttpPayload)) # 13
        /\ DeclaredLength(HttpPayload) = Utf8Len(Body(HttpPayload))

\* a payload whose body names a sensor with a character outside ASCII
C15_Witness ==
    /\ variant \in LineAtomic
    /\ pc = "payload"
    /\ \E j \in 1..Len(readings) :
          \E i \in 1..Len(readings[j].sensor_type) : readings[j].sensor_type[i] > 127
    /\ DeclaredLength(HttpPayload) = Utf8Len(JsonDumps(readings))

\* C16: exchanges on the modem link are one at a time: a command is
\* written to the link only when the response window of the command before
\* it is closed (its response was read, or the wait for it has ended).
C16_OneExchangeAtATime ==
    [][ (issued' # issued \/ (window' # window /\ window' # "none")) =>
            window = "none" ]_vars

\* the concatenation of chunks
RECURSIVE Flatten(_)
Flatten(cs) == IF cs = <<>> THEN <<>> ELSE Head(cs) \o Flatten(Tail(cs))

\* the text of all the input the call has read so far
InputRead == decode(Flatten(SubSeq(chunks, 1, nread)))

\* C17: wait_for returns True exactly when the keyword occurs in the
\* concatenation of the chunks it has read, also when the keyword arrived
\* in several reads; it returns False only at the deadline, the keyword not
\* having occurred; while the keyword has not occurred it goes on reading.
C17_TrueExactlyWhenKeywordInInput ==
    /\ ret = "True" => Occurs(keyword, InputRead)
    /\ ret = "False" => (nread = Len(chunks) /\ ~Occurs(keyword, InputRead))
    /\ ret = "running" => ~Occurs(keyword, InputRead)

\* the text before the first "=" of a line and the text after it, without
\* the white space around them
KeyText(raw) == Strip(SubSeq(raw, 1, IndexOf(raw, EQUALS) - 1))
ValText(raw) == Strip(SubSeq(raw, IndexOf(raw, EQUALS) + 1, Len(raw)))

\* a line that names a required key, in any letter case, with a value
Acceptable(raw) ==
    /\ Contains(raw, EQUALS)
    /\ Upper(KeyText(raw)) \in EXPECTED_KEYS
    /\ ValText(raw) # <<>>

\* C18: in the accumulating policy, a line with an unknown key, an empty
\* value or no "=" leaves the buffer as it is and starts no transmission; a
\* line with a required key in any letter case puts its value into the
\* buffer under the key in upper case.
C18_OnlyRequiredKeysAccumulate ==
    [][ (variant = "simnew" /\ pc = "readline" /\ line' # <<>>
            /\ pc' \in {"loop_end", "wait_for"}) =>
           IF Acceptable(line')
           THEN /\ DOMAIN buffer' = DOMAIN buffer \cup {Upper(KeyText(line'))}
                /\ buffer'[Upper(KeyText(line'))] = ValText(line')
                /\ \A k \in DOMAIN buffer : k # Upper(KeyText(line')) => buffer'[k] = buffer[k]
           ELSE /\ buffer' = buffer
                /\ pc' = "loop_end"
                /\ outcome' \in {"malformed", "ignored"}
                /\ issued' = issued
                /\ announced' = -1
                /\ written' = 0 ]_vars

\* a key received in lower case is in the buffer in upper case
C18_Witness ==
    /\ variant = "simnew"
    /\ pc = "loop_end"
    /\ outcome = "accumulated"
    /\ Upper(KeyText(line)) # KeyText(line)
    /\ Upper(KeyText(line)) \in DOMAIN buffer

\* the reads a transmission that waits for its prompt may still do
ReadsLeft == (PromptWaits - waits) * MaxPolls - polls

\* C19: a transmission never hangs: whatever the modem does, a call of
\* send_json_data / send_data that waits for the prompt has a read left to
\* do and every read leaves it fewer, so it returns after a bounded number
\* of reads; the payload write is followed by the end of the loop body, and
\* that by the read of the sensor link (or by the user's interrupt).
C19_TransmissionReturns ==
    [][ /\ pc = "wait_for" => (polls < MaxPolls /\ ReadsLeft > 0)
        /\ (pc = "wait_for" /\ pc' = "wait_for") => ReadsLeft' < ReadsLeft
        /\ pc = "wait_for" => pc' \in {"wait_for", "payload", "loop_end", "finally"}
        /\ pc = "payload" => pc' \in {"loop_end", "finally"}
        /\ pc = "loop_end" => pc' \in {"readline", "finally"} ]_vars

\* the modem stayed silent through every wait of a transmission with a retry
C19_Witness ==
    /\ variant = "simnew"
    /\ pc = "loop_end"
    /\ outcome = "skipped"
    /\ waits = PromptWaits
    /\ ~promptSeen

\* C20: a payload is written only in answer to a ">" the modem sent for the
\* announcement of this transmission, never to the late ">" of one given up
\* earlier; and no announcement is written while the modem awaits the
\* payload bytes of one given up earlier.
C20_PromptBelongsToItsAnnouncement ==
    [][ /\ (pc = "payload" /\ written' > 0) => abandoned = "none"
        /\ (pc = "readline" /\ pc' = "wait_for") => abandoned # "awaiting" ]_vars

=============================================================================
